---------------------------- MODULE Spec2Model ----------------------------
(***************************************************************************)
(* State-machine model of the os-agent "system" D-Bus object               *)
(* (src/system/system.go): WipeDevice, ScheduleWipeDevice, AddSSHAuthKey,  *)
(* ClearSSHAuthKeys and the LoadUSBIP property with its write callback     *)
(* LoadKernelDriver.                                                       *)
(*                                                                         *)
(* Text (file contents, keys) is a sequence of one-character strings, so   *)
(* that trimming, appending and line/token splitting are computed, not     *)
(* assumed.  External collaborators (udisks2, the file system, the module  *)
(* loader) are modelled at their call boundary: every call may succeed or  *)
(* fail, and the handler sees only what the call returns.                  *)
(***************************************************************************)
EXTENDS Integers, Sequences, FiniteSets, TLC

(***************************************************************************)
(* Bounds of the model.                                                    *)
(***************************************************************************)
\* number of distinct mount points a volume may be mounted at
MaxMountPoints == 2
\* number of bus callers that may have a request in progress
MaxCallers == 2
\* ScheduleWipeDevice invocations that are let replace the boot file in one run
MaxSchedCalls == 2
\* AddSSHAuthKey is called while authorized_keys holds fewer bytes than this
MaxAuthBytes == 6
\* writes of the LoadUSBIP property in one run
MaxPropWrites == 3
\* longest boot command line (over BootAlphabet) the agent starts with
MaxBootLen == 2

(***************************************************************************)
(* Program constants (system.go, const block).                             *)
(***************************************************************************)
labelDataFileSystem == "hassos-data"
labelOverlayFileSystem == "hassos-overlay"

Labels == {labelDataFileSystem, labelOverlayFileSystem}

AllMountPoints == <<"/mnt/data", "/mnt/overlay", "/mnt/extra">>
MountPoints == {AllMountPoints[i] : i \in 1..MaxMountPoints}

\* the Go nil error
NoError == "nil"

VARIABLES
    vol,      \* storage subsystem: label -> [present, mounts, wiped]
    wpc,      \* WipeDevice: position of the handler
    wobj,     \* WipeDevice: locals dataBusObject / overlayBusObject
    wlog,     \* calls issued to udisks2 by the current invocation, in order
    wret,     \* WipeDevice: what the last invocation returned
    dir,      \* file system: path -> inode number (0: no such file)
    inode,    \* file system: inode number -> content
    spc,      \* ScheduleWipeDevice: position of each invocation
    sdata,    \* ScheduleWipeDevice: local datastr
    sfd,      \* ScheduleWipeDevice: inode the temp file was opened on
    slog,     \* file-system calls issued so far by the invocation, with their errors
    sbefore,  \* boot file as it was when the invocation began
    slast,    \* how the last invocation ended, until the next one begins
    sok,      \* number of invocations that returned success
    sren,     \* number of invocations that renamed the temp file over the boot file
    sboot0,   \* boot file before the first invocation
    sshlast,  \* the last AddSSHAuthKey / ClearSSHAuthKeys call: what it met and returned
    sshadded, \* keys added with success since the last call of ClearSSHAuthKeys
    urun,     \* the agent: "down", "running" or "panicked"
    kmod,     \* whether vhci-hcd is in the running kernel's module table
    loadUSBIP,\* the package variable loadUSBIP
    propValue,\* the value of the LoadUSBIP property as the bus shows it
    ucmd,     \* the exec.Cmd the last run of LoadKernelDriver built
    uexec,    \* the module-loader commands executed so far
    uwrites,  \* the writes of the property so far, each with what the caller got
    uread,    \* what the last read of the property returned, and after how many writes
    kstart    \* whether vhci-hcd was in the kernel's module table when the agent started

wipeVars == <<vol, wpc, wobj, wlog, wret>>
fileVars == <<dir, inode>>
schedVars == <<spc, sdata, sfd, slog, sbefore, slast, sok, sren, sboot0>>

sshVars == <<sshlast, sshadded>>

usbVars == <<urun, kmod, loadUSBIP, propValue, ucmd, uexec, uwrites, uread, kstart>>

vars == <<wipeVars, fileVars, schedVars, sshVars, usbVars>>

nonWipeVars == <<fileVars, schedVars, sshVars, usbVars>>
nonSchedVars == <<wipeVars, sshVars, usbVars>>
nonSshVars == <<wipeVars, schedVars, usbVars>>
nonUsbVars == <<wipeVars, fileVars, schedVars, sshVars>>

(***************************************************************************)
(* udisks2 boundary.                                                       *)
(***************************************************************************)
NoObject == "none"
NoReturn == [done |-> FALSE, ok |-> FALSE, err |-> NoError, label |-> "", mounts |-> {}]

Call(op, label, ok, mounts) ==
    [op |-> op, label |-> label, ok |-> ok, mounts |-> mounts]

\* the (bool, *dbus.Error) pair a handler returns
Success == [done |-> TRUE, ok |-> TRUE, err |-> NoError, label |-> "", mounts |-> {}]
Failed(e, label, mounts) ==
    [done |-> TRUE, ok |-> FALSE, err |-> e, label |-> label, mounts |-> mounts]

(***************************************************************************)
(* getAndCheckBusObjectFromLabel, first half: GetBusObjectFromLabel.       *)
(* at/next name the handler positions of the call and of its success.      *)
(***************************************************************************)
ResolveLabel(label, at, next) ==
    /\ wpc = at
    /\ \E ok \in BOOLEAN :
         \* a volume that does not carry the label cannot be resolved
         /\ ok => vol[label].present
         /\ wlog' = Append(wlog, Call("GetBusObjectFromLabel", label, ok, {}))
         /\ IF ok
              THEN /\ wobj' = [wobj EXCEPT ![label] = label]
                   /\ wpc' = next
                   /\ wret' = wret
              ELSE /\ wobj' = wobj
                   /\ wpc' = "idle"
                   /\ wret' = Failed(IF vol[label].present THEN "LookupFailed"
                                                          ELSE "NotFound",
                                     label, {})
    /\ UNCHANGED vol
    /\ UNCHANGED nonWipeVars

\* mutant: the len(dataMountPoints) > 0 test is missing
CheckUnmounted_NoMountTest(label, at, next) ==
    /\ wpc = at
    /\ \E ok \in BOOLEAN :
         LET mounts == IF ok THEN vol[label].mounts ELSE {} IN
         /\ wlog' = Append(wlog, Call("GetMountPointsString", label, ok, mounts))
         /\ IF ~ok
              THEN /\ wpc' = "idle"
                   /\ wret' = Failed("LookupFailed", label, {})
              ELSE /\ wpc' = next
                   /\ wret' = wret
    /\ UNCHANGED <<vol, wobj>>
    /\ UNCHANGED nonWipeVars

(***************************************************************************)
(* getAndCheckBusObjectFromLabel, second half: GetMountPointsString and    *)
(* the len(dataMountPoints) > 0 test.                                      *)
(***************************************************************************)
CheckUnmounted(label, at, next) ==
    /\ wpc = at
    /\ \E ok \in BOOLEAN :
         LET mounts == IF ok THEN vol[label].mounts ELSE {} IN
         /\ wlog' = Append(wlog, Call("GetMountPointsString", label, ok, mounts))
         /\ IF ~ok
              THEN /\ wpc' = "idle"
                   /\ wret' = Failed("LookupFailed", label, {})
              ELSE IF Cardinality(mounts) > 0
              THEN /\ wpc' = "idle"
                   /\ wret' = Failed("Mounted", label, mounts)
              ELSE /\ wpc' = next
                   /\ wret' = wret
    /\ UNCHANGED <<vol, wobj>>
    /\ UNCHANGED nonWipeVars

\* mutant: the error of a format call is not tested, the handler goes on
FormatPartition_ErrorIgnored(obj, label, at, next) ==
    /\ wpc = at
    /\ \E ok \in BOOLEAN :
         /\ wlog' = Append(wlog, Call("FormatPartition", obj, ok, {}))
         /\ vol' = IF ok THEN [vol EXCEPT ![obj].wiped = TRUE] ELSE vol
         /\ IF next = "return"
              THEN wpc' = "idle" /\ wret' = Success
              ELSE wpc' = next /\ wret' = wret
    /\ UNCHANGED wobj
    /\ UNCHANGED nonWipeVars

(***************************************************************************)
(* udisks2helper.FormatPartition(obj, "ext4", label) and the error test    *)
(* after it.  A successful format leaves the volume wiped.                 *)
(***************************************************************************)
FormatPartition(obj, label, at, next) ==
    /\ wpc = at
    /\ \E ok \in BOOLEAN :
         /\ wlog' = Append(wlog, Call("FormatPartition", obj, ok, {}))
         /\ IF ok
              THEN /\ vol' = [vol EXCEPT ![obj].wiped = TRUE]
                   /\ IF next = "return"
                        THEN wpc' = "idle" /\ wret' = Success
                        ELSE wpc' = next /\ wret' = wret
              ELSE /\ vol' = vol
                   /\ wpc' = "idle"
                   /\ wret' = Failed("FormatFailed", label, {})
    /\ UNCHANGED wobj
    /\ UNCHANGED nonWipeVars

\* mutant: the entry of the handler resets the cached module state
WipeBegin_ResetsCache ==
    /\ wpc = "idle"
    /\ wpc' = "resolveData"
    /\ wobj' = [l \in Labels |-> NoObject]
    /\ wlog' = <<>>
    /\ wret' = NoReturn
    /\ loadUSBIP' = FALSE
    /\ UNCHANGED vol
    /\ UNCHANGED <<fileVars, schedVars, sshVars>>
    /\ UNCHANGED <<urun, kmod, propValue, ucmd, uexec, uwrites, uread, kstart>>

\* entry of the handler: a new invocation starts with fresh locals
WipeBegin ==
    /\ wpc = "idle"
    /\ wpc' = "resolveData"
    /\ wobj' = [l \in Labels |-> NoObject]
    /\ wlog' = <<>>
    /\ wret' = NoReturn
    /\ UNCHANGED vol
    /\ UNCHANGED nonWipeVars

WipeResolveData == ResolveLabel(labelDataFileSystem, "resolveData", "mountsData")
\* mutant: the first mount-point query is made for the overlay volume
WipeCheckData_OverlayLabel ==
    CheckUnmounted(labelOverlayFileSystem, "mountsData", "resolveOverlay")

WipeCheckData == CheckUnmounted(labelDataFileSystem, "mountsData", "resolveOverlay")
WipeResolveOverlay == ResolveLabel(labelOverlayFileSystem, "resolveOverlay", "mountsOverlay")
WipeCheckOverlay == CheckUnmounted(labelOverlayFileSystem, "mountsOverlay", "formatData")
WipeFormatData ==
    FormatPartition(wobj[labelDataFileSystem], labelDataFileSystem,
                    "formatData", "formatOverlay")
\* mutant: the second format is issued for dataBusObject again
WipeFormatOverlay_DataObject ==
    FormatPartition(wobj[labelDataFileSystem], labelOverlayFileSystem,
                    "formatOverlay", "return")

WipeFormatOverlay ==
    FormatPartition(wobj[labelOverlayFileSystem], labelOverlayFileSystem,
                    "formatOverlay", "return")

WipeDevice ==
    \/ WipeBegin
    \/ WipeResolveData
    \/ WipeCheckData
    \/ WipeResolveOverlay
    \/ WipeCheckOverlay
    \/ WipeFormatData
    \/ WipeFormatOverlay

(***************************************************************************)
(* The storage subsystem outside the agent: volumes get mounted, unmounted *)
(* and written to while the agent runs.                                    *)
(***************************************************************************)
Mount ==
    \E l \in Labels, m \in MountPoints :
        /\ vol[l].present
        /\ m \notin vol[l].mounts
        /\ vol' = [vol EXCEPT ![l].mounts = @ \cup {m}]
        /\ UNCHANGED <<wpc, wobj, wlog, wret>>
        /\ UNCHANGED nonWipeVars

Unmount ==
    \E l \in Labels : \E m \in vol[l].mounts :
        /\ vol' = [vol EXCEPT ![l].mounts = @ \ {m}]
        /\ UNCHANGED <<wpc, wobj, wlog, wret>>
        /\ UNCHANGED nonWipeVars

\* a mounted, wiped volume is written to again
UseVolume ==
    \E l \in Labels :
        /\ vol[l].mounts /= {}
        /\ vol[l].wiped
        /\ vol' = [vol EXCEPT ![l].wiped = FALSE]
        /\ UNCHANGED <<wpc, wobj, wlog, wret>>
        /\ UNCHANGED nonWipeVars

(***************************************************************************)
(* Text.  A string is a sequence of one-character strings.                 *)
(***************************************************************************)
\* the characters unicode.IsSpace accepts, as far as they occur here
IsSpace(ch) == ch \in {" ", "\n", "\t", "\r"}

RECURSIVE TrimLeft(_)
TrimLeft(s) ==
    IF s = <<>> THEN s
    ELSE IF IsSpace(Head(s)) THEN TrimLeft(Tail(s)) ELSE s

RECURSIVE TrimRight(_)
TrimRight(s) ==
    IF s = <<>> THEN s
    ELSE IF IsSpace(s[Len(s)]) THEN TrimRight(SubSeq(s, 1, Len(s) - 1)) ELSE s

\* strings.TrimSpace: leading and trailing white space removed
TrimSpace(s) == TrimRight(TrimLeft(s))

\* " haos.wipe=1", the literal appended at system.go:95
WipeMarker == <<" ", "h", "a", "o", "s", ".", "w", "i", "p", "e", "=", "1">>

\* mutant: the separating space of the literal is missing
Datastr_NoSeparator(data) == TrimSpace(data) \o Tail(WipeMarker)

\* datastr as computed from the bytes read (system.go:94-95)
Datastr(data) == TrimSpace(data) \o WipeMarker

\* a write of w at offset 0 of a file holding old
WriteAt(old, w) == w \o SubSeq(old, Len(w) + 1, Len(old))

(***************************************************************************)
(* File system: directory entries name inodes, inodes hold content.  A     *)
(* file descriptor names an inode, so a write through a descriptor reaches *)
(* the file even after its path was renamed.                               *)
(***************************************************************************)
kernelCommandLine == "/mnt/boot/cmdline.txt"

\* mutant: the new content is written to the boot file itself
tmpKernelCommandLine_InPlace == kernelCommandLine

tmpKernelCommandLine == "/mnt/boot/.tmp.cmdline.txt"
sshAuthKeyFileName == "/root/.ssh/authorized_keys"

Paths == {kernelCommandLine, tmpKernelCommandLine, sshAuthKeyFileName}

Callers == 1..MaxCallers
Inodes == 1..(3 + MaxCallers)

NoFile == [exists |-> FALSE, data |-> <<>>]
File(d) == [exists |-> TRUE, data |-> d]

\* what a reader of path sees
ReadOf(d, ino, path) == IF d[path] = 0 THEN NoFile ELSE File(ino[d[path]])
Read(path) == ReadOf(dir, inode, path)

\* the inodes a directory entry or an open descriptor refers to
UsedInodes(d, fds) == {d[p] : p \in Paths} \cup {fds[c] : c \in Callers}

FreeInode ==
    CHOOSE n \in Inodes \ UsedInodes(dir, sfd) :
        \A m \in Inodes \ UsedInodes(dir, sfd) : n <= m

\* an inode nothing refers to any more is gone with its content
Collect(d, ino, fds) ==
    [n \in Inodes |-> IF n \in UsedInodes(d, fds) THEN ino[n] ELSE <<>>]

IOCall(op, path, err) == [op |-> op, path |-> path, err |-> err]

(***************************************************************************)
(* ScheduleWipeDevice, one step per file-system call.                      *)
(***************************************************************************)
AllIdle == \A c \in Callers : spc[c] = "idle"

NoLast == [how |-> "none", at |-> "idle", ret |-> NoReturn, log |-> <<>>, before |-> NoFile]

\* entry of the handler
SchedBegin(c) ==
    /\ spc[c] = "idle"
    /\ sren < MaxSchedCalls
    /\ spc' = [spc EXCEPT ![c] = "read"]
    /\ sbefore' = [sbefore EXCEPT ![c] = Read(kernelCommandLine)]
    /\ slast' = NoLast
    /\ UNCHANGED <<sdata, sfd, slog, sok, sren, sboot0, fileVars, nonSchedVars>>

\* the handler returns r, log being the calls it issued; its locals are gone
SchedReturn(c, r, log) ==
    /\ spc' = [spc EXCEPT ![c] = "idle"]
    /\ sdata' = [sdata EXCEPT ![c] = <<>>]
    /\ slog' = [slog EXCEPT ![c] = <<>>]
    /\ sbefore' = [sbefore EXCEPT ![c] = NoFile]
    /\ slast' = [how |-> "returned", at |-> spc[c], ret |-> r, log |-> log,
                 before |-> sbefore[c]]
    /\ sok' = IF r.ok THEN sok + 1 ELSE sok

\* the handler goes on to position next
SchedGoto(c, next, log) ==
    /\ spc' = [spc EXCEPT ![c] = next]
    /\ slog' = [slog EXCEPT ![c] = log]
    /\ UNCHANGED <<sbefore, slast, sok>>

\* mutant: the failure returned after ReadFile does not carry err
SchedRead_ErrorDropped(c) ==
    /\ spc[c] = "read"
    /\ \E err \in IF dir[kernelCommandLine] = 0 THEN {"ENOENT"} ELSE {NoError, "EIO"} :
         LET log == Append(slog[c], IOCall("ReadFile", kernelCommandLine, err)) IN
         IF err /= NoError
           THEN SchedReturn(c, Failed(NoError, "", {}), log)
           ELSE /\ sdata' = [sdata EXCEPT ![c] = Datastr(Read(kernelCommandLine).data)]
                /\ SchedGoto(c, "open", log)
    /\ UNCHANGED <<sfd, sren, sboot0, fileVars, nonSchedVars>>

\* ioutil.ReadFile(kernelCommandLine), the error test, and datastr
SchedRead(c) ==
    /\ spc[c] = "read"
    /\ \E err \in IF dir[kernelCommandLine] = 0 THEN {"ENOENT"} ELSE {NoError, "EIO"} :
         LET log == Append(slog[c], IOCall("ReadFile", kernelCommandLine, err)) IN
         IF err /= NoError
           THEN SchedReturn(c, Failed(err, "", {}), log)
           ELSE /\ sdata' = [sdata EXCEPT ![c] = Datastr(Read(kernelCommandLine).data)]
                /\ SchedGoto(c, "open", log)
    /\ UNCHANGED <<sfd, sren, sboot0, fileVars, nonSchedVars>>

\* ioutil.WriteFile(tmpKernelCommandLine, ...), first part: the file is
\* opened with O_WRONLY|O_CREATE|O_TRUNC
SchedOpenTmp(c) ==
    /\ spc[c] = "open"
    /\ \E err \in {NoError, "EACCES"} :
         IF err /= NoError
           THEN /\ SchedReturn(c, Failed(err, "", {}),
                               Append(slog[c], IOCall("WriteFile", tmpKernelCommandLine, err)))
                /\ UNCHANGED <<sfd, fileVars>>
           ELSE LET n == IF dir[tmpKernelCommandLine] = 0
                           THEN FreeInode ELSE dir[tmpKernelCommandLine] IN
                /\ dir' = [dir EXCEPT ![tmpKernelCommandLine] = n]
                /\ inode' = [inode EXCEPT ![n] = <<>>]
                /\ sfd' = [sfd EXCEPT ![c] = n]
                /\ SchedGoto(c, "write", slog[c])
                /\ UNCHANGED sdata
    /\ UNCHANGED <<sren, sboot0, nonSchedVars>>

\* ioutil.WriteFile, second part: datastr is written through the descriptor,
\* which is then closed.  A write that fails has written some of the bytes
\* (n of them); a close that fails has written them all.
SchedWriteTmp(c) ==
    /\ spc[c] = "write"
    /\ \E n \in 0..Len(sdata[c]) :
       \E err \in IF n < Len(sdata[c]) THEN {"ENOSPC"} ELSE {NoError, "EIO"} :
         LET log == Append(slog[c], IOCall("WriteFile", tmpKernelCommandLine, err)) IN
         /\ sfd' = [sfd EXCEPT ![c] = 0]
         /\ inode' = Collect(dir, [inode EXCEPT ![sfd[c]] =
                                     WriteAt(@, SubSeq(sdata[c], 1, n))], sfd')
         /\ IF err /= NoError
              THEN SchedReturn(c, Failed(err, "", {}), log)
              ELSE SchedGoto(c, "rename", log) /\ UNCHANGED sdata
    /\ UNCHANGED <<dir, sren, sboot0, nonSchedVars>>

\* os.Rename(tmpKernelCommandLine, kernelCommandLine) and the error test
SchedRename(c) ==
    /\ spc[c] = "rename"
    /\ \E err \in IF dir[tmpKernelCommandLine] = 0 THEN {"ENOENT"} ELSE {NoError, "EBUSY"} :
         LET log == Append(slog[c], IOCall("Rename", tmpKernelCommandLine, err)) IN
         IF err /= NoError
           THEN /\ SchedReturn(c, Failed(err, "", {}), log)
                /\ UNCHANGED <<fileVars, sren>>
           ELSE /\ dir' = IF tmpKernelCommandLine = kernelCommandLine THEN dir
                          ELSE [dir EXCEPT ![kernelCommandLine] = dir[tmpKernelCommandLine],
                                           ![tmpKernelCommandLine] = 0]
                /\ inode' = Collect(dir', inode, sfd)
                /\ sren' = sren + 1
                /\ SchedGoto(c, "return", log)
                /\ UNCHANGED sdata
    /\ UNCHANGED <<sfd, sboot0, nonSchedVars>>

\* the log line and return true, nil
SchedDone(c) ==
    /\ spc[c] = "return"
    /\ SchedReturn(c, Success, slog[c])
    /\ UNCHANGED <<sfd, sren, sboot0, fileVars, nonSchedVars>>

ScheduleWipeDevice(c) ==
    \/ SchedRead(c)
    \/ SchedOpenTmp(c)
    \/ SchedWriteTmp(c)
    \/ SchedRename(c)
    \/ SchedDone(c)

(***************************************************************************)
(* The agent dies (is killed, loses power) while an invocation is at any   *)
(* of its steps.  Bytes of a write in progress may have reached the file.  *)
(* The agent is started again: every handler is idle, files are as left.   *)
(***************************************************************************)
SchedCrash(c) ==
    /\ spc[c] /= "idle"
    /\ slast' = [how |-> "crashed", at |-> spc[c], ret |-> NoReturn, log |-> slog[c],
                 before |-> sbefore[c]]
    /\ spc' = [d \in Callers |-> "idle"]
    /\ sfd' = [d \in Callers |-> 0]
    /\ sdata' = [d \in Callers |-> <<>>]
    /\ slog' = [d \in Callers |-> <<>>]
    /\ sbefore' = [d \in Callers |-> NoFile]
    /\ \E n \in 0..Len(sdata[c]) :
         /\ spc[c] /= "write" => n = 0
         /\ inode' = Collect(dir, IF spc[c] = "write"
                                    THEN [inode EXCEPT ![sfd[c]] =
                                            WriteAt(@, SubSeq(sdata[c], 1, n))]
                                    ELSE inode, sfd')
    /\ UNCHANGED <<dir, sok, sren, sboot0, nonSchedVars>>

(***************************************************************************)
(* AddSSHAuthKey and ClearSSHAuthKeys, each handler one step.              *)
(***************************************************************************)
\* "abc" and two more keys
SSHKeys == {<<"a", "b", "c">>, <<"k">>, <<"a">>}

AuthFile == Read(sshAuthKeyFileName)

NoSshCall ==
    [op |-> "none", key |-> <<>>, before |-> NoFile, err |-> NoError, ret |-> NoReturn]
SshCall(op, key, err, ret) ==
    [op |-> op, key |-> key, before |-> AuthFile, err |-> err, ret |-> ret]

\* os.OpenFile(O_APPEND|O_CREATE|O_WRONLY), file.WriteString(newKey + "\n")
\* with the byte count dropped, the deferred Close.  A write that fails has
\* appended n of the bytes.
AddSSHAuthKey(newKey) ==
    /\ Len(AuthFile.data) < MaxAuthBytes
    /\ \E openErr \in {NoError, "EACCES"} :
         IF openErr /= NoError
           THEN /\ sshlast' = SshCall("add", newKey, openErr, Failed(openErr, "", {}))
                /\ UNCHANGED <<fileVars, sshadded>>
           ELSE LET line == newKey \o <<"\n">>
                    f == IF dir[sshAuthKeyFileName] = 0
                           THEN FreeInode ELSE dir[sshAuthKeyFileName]
                IN  \E n \in 0..Len(line) :
                    LET err == IF n < Len(line) THEN "ENOSPC" ELSE NoError IN
                    /\ dir' = [dir EXCEPT ![sshAuthKeyFileName] = f]
                    /\ inode' = [inode EXCEPT ![f] = AuthFile.data \o SubSeq(line, 1, n)]
                    /\ IF err /= NoError
                         THEN /\ sshlast' = SshCall("add", newKey, err, Failed(err, "", {}))
                              /\ sshadded' = sshadded
                         ELSE /\ sshlast' = SshCall("add", newKey, err, Success)
                              /\ sshadded' = Append(sshadded, newKey)
    /\ UNCHANGED nonSshVars

\* os.IsNotExist
IsNotExist(err) == err = "ENOENT"

\* os.Remove(sshAuthKeyFileName) and the test of its error as the code has it:
\* err != nil && os.IsNotExist(err)
ClearSSHAuthKeys ==
    /\ \E err \in IF AuthFile.exists THEN {NoError, "EACCES"} ELSE {"ENOENT", "EACCES"} :
         /\ IF err = NoError
              THEN /\ dir' = [dir EXCEPT ![sshAuthKeyFileName] = 0]
                   /\ inode' = Collect(dir', inode, sfd)
              ELSE UNCHANGED fileVars
         /\ sshlast' = SshCall("clear", <<>>, err,
                               IF err /= NoError /\ IsNotExist(err)
                                 THEN Failed(err, "", {}) ELSE Success)
         /\ sshadded' = <<>>
    /\ UNCHANGED nonSshVars

(***************************************************************************)
(* The LoadUSBIP property: getDriverStatus, InitializeDBus and the write    *)
(* callback LoadKernelDriver.  The property library runs the callback and, *)
(* when it returned nil, stores the value, both under the property lock.   *)
(***************************************************************************)
moduleLoadCommand == "/sbin/modprobe"

NoCmd == [path |-> "", args |-> <<>>, stdin |-> FALSE, started |-> FALSE]

\* exec.Command(name): Path and Args[0] are name, nothing is started
Command(name) == [path |-> name, args |-> <<name>>, stdin |-> FALSE, started |-> FALSE]

\* exec.Command is handed the whole shell line as the name of one program.
\* No such program exists whatever the kernel holds, Output() returns an
\* error and the function returns false.
getDriverStatus(loaded) ==
    LET cmd == Command("cat /proc/modules | grep vhci-hcd")
        err == "ENOENT"
    IN  IF err /= NoError THEN FALSE ELSE loaded

\* loadUSBIP = getDriverStatus() and the export of the property with it
InitializeDBus ==
    /\ urun = "down"
    /\ urun' = "running"
    /\ loadUSBIP' = getDriverStatus(kmod)
    /\ propValue' = loadUSBIP'
    /\ kstart' = kmod
    /\ UNCHANGED <<kmod, ucmd, uexec, uwrites, uread, nonUsbVars>>

\* the callback of a write of value.  The command is built and given a stdin
\* pipe; it is not started.  When StdinPipe fails (no descriptor left),
\* dbus.MakeFailedError is called with err, which is nil: err.Error() panics.
LoadKernelDriver(value) ==
    /\ urun = "running"
    /\ Len(uwrites) < MaxPropWrites
    /\ loadUSBIP' = value
    /\ \E cerror \in {NoError, "EMFILE"} :
         LET cmd == [Command(moduleLoadCommand) EXCEPT
                       !.args = IF value THEN @ \o <<"vhci-hcd">>
                                         ELSE @ \o <<"--remove", "vhci-hcd">>,
                       !.stdin = (cerror = NoError)]
         IN  /\ ucmd' = cmd
             /\ uexec' = IF cmd.started THEN Append(uexec, cmd) ELSE uexec
             /\ IF cerror /= NoError
                  THEN /\ urun' = "panicked"
                       /\ propValue' = propValue
                       /\ uwrites' = Append(uwrites, [value |-> value, cerror |-> cerror,
                                                      before |-> propValue, ret |-> "panic"])
                  ELSE /\ urun' = "running"
                       /\ propValue' = value
                       /\ uwrites' = Append(uwrites, [value |-> value, cerror |-> cerror,
                                                      before |-> propValue, ret |-> NoError])
    /\ UNCHANGED <<kmod, uread, kstart, nonUsbVars>>

\* mutant: a read asks the kernel
PropertyGet_QueryKernel ==
    /\ urun = "running"
    /\ uread' = [done |-> TRUE, value |-> kmod, after |-> Len(uwrites)]
    /\ UNCHANGED <<urun, kmod, loadUSBIP, propValue, ucmd, uexec, uwrites, kstart, nonUsbVars>>

\* a read of the property: the library returns the stored value
PropertyGet ==
    /\ urun = "running"
    /\ uread' = [done |-> TRUE, value |-> propValue, after |-> Len(uwrites)]
    /\ UNCHANGED <<urun, kmod, loadUSBIP, propValue, ucmd, uexec, uwrites, kstart, nonUsbVars>>

\* the module enters or leaves the kernel's table by other hands
KernelModuleChange ==
    /\ kmod' = ~kmod
    /\ UNCHANGED <<urun, loadUSBIP, propValue, ucmd, uexec, uwrites, uread, kstart, nonUsbVars>>

(***************************************************************************)
(* Initial states.                                                         *)
(***************************************************************************)
WipeInit ==
    /\ vol \in [Labels -> [present : BOOLEAN, mounts : SUBSET MountPoints, wiped : {FALSE}]]
    /\ \A l \in Labels : ~vol[l].present => vol[l].mounts = {}
    /\ wpc = "idle"
    /\ wobj = [l \in Labels |-> NoObject]
    /\ wlog = <<>>
    /\ wret = NoReturn

\* "console=ttyS0"
ConsoleTty == <<"c", "o", "n", "s", "o", "l", "e", "=", "t", "t", "y", "S", "0">>

BootAlphabet == {"q", " ", "\n"}

\* what the boot command-line file may hold before the agent touches it
BootContents ==
    UNION {[1..n -> BootAlphabet] : n \in 0..MaxBootLen}
      \cup {ConsoleTty, ConsoleTty \o <<"\n">>}

\* the boot file exists (inode 1) or not; no temp file, no authorized_keys
FileInit ==
    /\ \E boot \in {0, 1} : \E content \in BootContents :
         /\ boot = 0 => content = <<>>
         /\ dir = [p \in Paths |-> IF p = kernelCommandLine THEN boot ELSE 0]
         /\ inode = [n \in Inodes |-> IF n = 1 THEN content ELSE <<>>]

SchedInit ==
    /\ spc = [c \in Callers |-> "idle"]
    /\ sdata = [c \in Callers |-> <<>>]
    /\ sfd = [c \in Callers |-> 0]
    /\ slog = [c \in Callers |-> <<>>]
    /\ sbefore = [c \in Callers |-> NoFile]
    /\ slast = NoLast
    /\ sok = 0
    /\ sren = 0
    /\ sboot0 = Read(kernelCommandLine)

SshInit ==
    /\ sshlast = NoSshCall
    /\ sshadded = <<>>

\* the agent not yet started, the module loaded or not
UsbInit ==
    /\ urun = "down"
    /\ kmod \in BOOLEAN
    /\ loadUSBIP = FALSE
    /\ propValue = FALSE
    /\ ucmd = NoCmd
    /\ uexec = <<>>
    /\ uwrites = <<>>
    /\ uread = [done |-> FALSE, value |-> FALSE, after |-> 0]
    /\ kstart = FALSE

UsbQuiet == UsbInit /\ ~kmod

\* the files and the other handlers at rest
FileQuiet ==
    /\ dir = [p \in Paths |-> IF p = kernelCommandLine THEN 1 ELSE 0]
    /\ inode = [n \in Inodes |-> IF n = 1 THEN ConsoleTty ELSE <<>>]

WipeQuiet ==
    /\ vol = [l \in Labels |-> [present |-> TRUE, mounts |-> {}, wiped |-> FALSE]]
    /\ wpc = "idle"
    /\ wobj = [l \in Labels |-> NoObject]
    /\ wlog = <<>>
    /\ wret = NoReturn

(***************************************************************************)
(* Specifications.                                                         *)
(***************************************************************************)
\* WipeDevice, one invocation at a time, against a changing storage subsystem
WipeNext ==
    \/ WipeDevice
    \/ Mount
    \/ Unmount
    \/ UseVolume

WipeStart == WipeInit /\ FileQuiet /\ SchedInit /\ SshInit /\ UsbQuiet

SpecWipe == WipeStart /\ [][WipeNext]_vars

\* ScheduleWipeDevice, one invocation at a time
SchedNext ==
    \/ \E c \in Callers : AllIdle /\ SchedBegin(c)
    \/ \E c \in Callers : ScheduleWipeDevice(c)

SchedStart == WipeQuiet /\ FileInit /\ SchedInit /\ SshInit /\ UsbQuiet

SpecSched == SchedStart /\ [][SchedNext]_vars

\* ScheduleWipeDevice, one invocation at a time, the agent dying at any step
SchedCrashNext ==
    \/ \E c \in Callers : AllIdle /\ SchedBegin(c)
    \/ \E c \in Callers : ScheduleWipeDevice(c)
    \/ \E c \in Callers : SchedCrash(c)

SpecSchedCrash == SchedStart /\ [][SchedCrashNext]_vars

\* ScheduleWipeDevice, invocations running at the same time, their steps
\* interleaved, on a boot file that holds console=ttyS0
SchedConcNext ==
    \/ \E c \in Callers : SchedBegin(c)
    \/ \E c \in Callers : ScheduleWipeDevice(c)

SchedConcStart == WipeQuiet /\ FileQuiet /\ SchedInit /\ SshInit /\ UsbQuiet

SpecSchedConc == SchedConcStart /\ [][SchedConcNext]_vars

\* AddSSHAuthKey and ClearSSHAuthKeys, one call at a time, from no file
SshNext ==
    \/ \E newKey \in SSHKeys : AddSSHAuthKey(newKey)
    \/ ClearSSHAuthKeys

SshStart == WipeQuiet /\ FileQuiet /\ SchedInit /\ SshInit /\ UsbQuiet

SpecSsh == SshStart /\ [][SshNext]_vars

\* the agent starts, the property is written and read, the kernel changes
UsbNext ==
    \/ InitializeDBus
    \/ \E value \in BOOLEAN : LoadKernelDriver(value)
    \/ PropertyGet
    \/ KernelModuleChange

UsbStart == WipeQuiet /\ FileQuiet /\ SchedInit /\ SshInit /\ UsbInit

SpecUsb == UsbStart /\ [][UsbNext]_vars

\* The whole agent: it starts, then the property is written while the calls
\* of one of the three families of methods come in (the two other families
\* stay as they were at start).
WipeAtRest == WipeQuiet
SchedAtRest == SchedInit /\ dir[tmpKernelCommandLine] = 0
SshAtRest == SshInit /\ dir[sshAuthKeyFileName] = 0

\* the one key added in the runs of the whole agent
AgentKeys == {<<"k">>}

AgentNext ==
    \/ InitializeDBus
    \/ \E value \in BOOLEAN : LoadKernelDriver(value)
    \/ urun = "running" /\ SchedAtRest /\ SshAtRest /\ WipeDevice
    \/ urun = "running" /\ WipeAtRest /\ SshAtRest /\
           \E c \in Callers : AllIdle /\ SchedBegin(c)
    \/ urun = "running" /\ WipeAtRest /\ SshAtRest /\
           \E c \in Callers : ScheduleWipeDevice(c)
    \/ urun = "running" /\ WipeAtRest /\ SchedAtRest /\
           \E newKey \in AgentKeys : AddSSHAuthKey(newKey)
    \/ urun = "running" /\ WipeAtRest /\ SchedAtRest /\ ClearSSHAuthKeys

AgentStart == WipeQuiet /\ FileQuiet /\ SchedInit /\ SshInit /\ UsbInit

SpecAgent == AgentStart /\ [][AgentNext]_vars

(***************************************************************************)
(* Claims about WipeDevice (checked under SpecWipe).                       *)
(***************************************************************************)
IsFormat(c) == c.op = "FormatPartition"
IsCheck(c) == c.op \in {"GetBusObjectFromLabel", "GetMountPointsString"}
FormatCalls(log) == SelectSeq(log, IsFormat)
\* a resolve or mount-point query that failed, or that reported a mount point
CheckFailed(c) == IsCheck(c) /\ (~c.ok \/ c.mounts /= {})
\* both volumes were reported unmounted to this invocation
BothPassed(log) ==
    \A l \in Labels : \E i \in DOMAIN log :
        log[i] = Call("GetMountPointsString", l, TRUE, {})

\* C1: an invocation to which a label failed to resolve, or a volume was
\* reported mounted, has returned failure and issued no format call at all.
C1_NoFormatAfterFailedCheck ==
    (\E i \in DOMAIN wlog : CheckFailed(wlog[i])) =>
        /\ wpc = "idle"
        /\ wret.done /\ ~wret.ok
        /\ FormatCalls(wlog) = <<>>

\* the data volume was reported mounted at "/mnt/data", and the invocation is over
C1_Witness ==
    /\ wret = Failed("Mounted", labelDataFileSystem, {"/mnt/data"})
    /\ Len(wlog) = 2
    /\ wlog[2] = Call("GetMountPointsString", labelDataFileSystem, TRUE, {"/mnt/data"})
    /\ vol[labelOverlayFileSystem].mounts = {}
    /\ vol[labelOverlayFileSystem].present

\* C2 as stated: once both volumes passed the unmounted check, the invocation
\* issues exactly two format calls, data then overlay, and returns success
\* only if both succeeded.
C2_ExactlyTwoFormats ==
    (wret.done /\ BothPassed(wlog)) =>
        /\ FormatCalls(wlog) \in
             {<<Call("FormatPartition", labelDataFileSystem, a, {}),
                Call("FormatPartition", labelOverlayFileSystem, b, {})>> :
                  a \in BOOLEAN, b \in BOOLEAN}
        /\ wret.ok => \A i \in DOMAIN wlog : IsFormat(wlog[i]) => wlog[i].ok

\* C2 amended: once both volumes passed the unmounted check, the first format
\* call is for the data volume; the second, for the overlay volume, is issued
\* exactly when the first succeeded, and no third one ever is.  The
\* invocation returns success exactly when both were issued and succeeded.
C2_FormatsInOrder ==
    (wret.done /\ BothPassed(wlog)) =>
        LET f == FormatCalls(wlog) IN
        /\ Len(f) \in {1, 2}
        /\ f[1].label = labelDataFileSystem
        /\ Len(f) = 2 <=> f[1].ok
        /\ Len(f) = 2 => f[2].label = labelOverlayFileSystem
        /\ wret.ok <=> (Len(f) = 2 /\ f[1].ok /\ f[2].ok)

\* both formats were issued and succeeded, and the handler returned success
C2_Witness ==
    /\ wret = Success
    /\ FormatCalls(wlog) =
         <<Call("FormatPartition", labelDataFileSystem, TRUE, {}),
           Call("FormatPartition", labelOverlayFileSystem, TRUE, {})>>

\* C3: a failed format call is the last call of its invocation, which has
\* returned failure: nothing is issued after it, for either volume.
C3_FailedFormatIsLast ==
    \A i \in DOMAIN wlog :
        (IsFormat(wlog[i]) /\ ~wlog[i].ok) =>
            /\ i = Len(wlog)
            /\ wpc = "idle"
            /\ wret.done /\ ~wret.ok

\* the data volume was formatted, then the overlay format failed
C3_Witness ==
    /\ wret.done /\ ~wret.ok
    /\ FormatCalls(wlog) =
         <<Call("FormatPartition", labelDataFileSystem, TRUE, {}),
           Call("FormatPartition", labelOverlayFileSystem, FALSE, {})>>
    /\ wlog[Len(wlog)] = Call("FormatPartition", labelOverlayFileSystem, FALSE, {})

(***************************************************************************)
(* Claims about ScheduleWipeDevice.                                        *)
(***************************************************************************)
\* the tokens of a command line: its maximal runs of non-space characters
RECURSIVE Fields(_)
Fields(s) ==
    IF s = <<>> THEN <<>>
    ELSE IF IsSpace(Head(s)) THEN Fields(Tail(s))
    ELSE LET rest == Fields(Tail(s)) IN
         IF Len(s) > 1 /\ ~IsSpace(s[2])
           THEN <<(<<Head(s)>> \o Head(rest))>> \o Tail(rest)
           ELSE <<(<<Head(s)>>)>> \o rest

\* "haos.wipe=1"
WipeToken == Tail(WipeMarker)

Repeat(x, n) == [i \in 1..n |-> x]

BootFile == Read(kernelCommandLine)

\* C4 (SpecSched): between invocations the boot file's tokens are those it
\* had at the start, unchanged and in order, followed by one haos.wipe=1 per
\* invocation that returned success; right after a successful invocation
\* they are the tokens found before it plus one haos.wipe=1; and
\* console=ttyS0 becomes exactly "console=ttyS0 haos.wipe=1".
C4_AppendsOneTokenPerCall ==
    AllIdle =>
        /\ Fields(BootFile.data) = Fields(sboot0.data) \o Repeat(WipeToken, sok)
        /\ (slast.how = "returned" /\ slast.ret.ok) =>
             /\ BootFile.exists
             /\ Fields(BootFile.data) = Fields(slast.before.data) \o <<WipeToken>>
             /\ slast.before.data = ConsoleTty => BootFile.data = ConsoleTty \o WipeMarker

\* two invocations in a row succeeded on a file that held console=ttyS0
C4_Witness ==
    /\ AllIdle
    /\ sok = 2
    /\ sboot0 = File(ConsoleTty)
    /\ slast.how = "returned" /\ slast.ret.ok
    /\ BootFile = File(ConsoleTty \o WipeMarker \o WipeMarker)

\* the invocation in progress, or the one the agent died in
SchedOld(c) == IF spc[c] /= "idle" THEN sbefore[c] ELSE slast.before
SchedNew(c) == File(Datastr(SchedOld(c).data))

\* C5 (SpecSchedCrash): while an invocation runs, and after the agent died in
\* it at whatever step, the boot file holds the complete content from before
\* the call or the complete new content; until the rename, and after a
\* crash before the rename, it holds the content from before.
C5_BootFileOldOrNew ==
    \A c \in Callers :
        (spc[c] /= "idle" \/ slast.how = "crashed") =>
            /\ BootFile \in {SchedOld(c), SchedNew(c)}
            /\ spc[c] \in {"read", "open", "write", "rename"} => BootFile = SchedOld(c)
            /\ (spc[c] = "idle" /\ slast.at \in {"read", "open", "write", "rename"})
                 => BootFile = SchedOld(c)
            /\ (spc[c] = "return" \/ (spc[c] = "idle" /\ slast.at = "return"))
                 => BootFile = SchedNew(c)

\* the agent died during the temp-file write; the temp file holds part of
\* the new content, the boot file what it held before
C5_Witness ==
    /\ slast.how = "crashed" /\ slast.at = "write"
    /\ slast.before = File(ConsoleTty)
    /\ BootFile = File(ConsoleTty)
    /\ Read(tmpKernelCommandLine) = File(SubSeq(ConsoleTty, 1, 7))

\* C6 (SpecSched): an invocation that returned failure returned the error of
\* the last file-system call it issued, which is the only one that failed;
\* the boot file is as it was before the call; and a failed read is the
\* only call that invocation issued.  No step of an invocation other than
\* the opening and writing of the temp file and the rename changes a file.
C6_FailureLeavesBootFile ==
    /\ []((AllIdle /\ slast.how = "returned" /\ ~slast.ret.ok) =>
              LET log == slast.log IN
              /\ log /= <<>>
              /\ log[Len(log)].err /= NoError
              /\ slast.ret.err = log[Len(log)].err
              /\ \A i \in 1..(Len(log) - 1) : log[i].err = NoError
              /\ BootFile = slast.before
              /\ log[Len(log)].op = "ReadFile" => Len(log) = 1
              /\ \A i \in DOMAIN log : log[i].op = "Rename" => i = Len(log))
    /\ [][\A c \in Callers :
            /\ (spc[c] = "read" /\ spc'[c] = "idle") => UNCHANGED fileVars
            /\ (spc'[c] = "idle" /\ slast'.how = "returned" /\ ~slast'.ret.ok)
                 => (BootFile' = BootFile /\ Read(sshAuthKeyFileName)' = Read(sshAuthKeyFileName))
          ]_vars

\* the write of the temp file failed half way: failure, boot file untouched,
\* part of the new content in the temp file
C6_Witness ==
    /\ AllIdle
    /\ slast.how = "returned" /\ slast.ret = Failed("ENOSPC", "", {})
    /\ slast.before = File(ConsoleTty)
    /\ BootFile = File(ConsoleTty)
    /\ Read(tmpKernelCommandLine) = File(SubSeq(ConsoleTty, 1, 7))

(***************************************************************************)
(* Claims about AddSSHAuthKey and ClearSSHAuthKeys (SpecSsh).              *)
(***************************************************************************)
\* the lines of a text: its pieces between line feeds, a last piece without
\* line feed included
RECURSIVE SplitLines(_)
SplitLines(s) ==
    IF s = <<>> THEN <<>>
    ELSE IF Head(s) = "\n" THEN <<(<<>>)>> \o SplitLines(Tail(s))
    ELSE LET rest == SplitLines(Tail(s)) IN
         IF Len(s) > 1
           THEN <<(<<Head(s)>> \o Head(rest))>> \o Tail(rest)
           ELSE <<(<<Head(s)>>)>>

IsSuffix(t, s) == Len(t) <= Len(s) /\ SubSeq(s, Len(s) - Len(t) + 1, Len(s)) = t

\* C7: ClearSSHAuthKeys called when authorized_keys does not exist returns
\* success.
C7_ClearOfAbsentFileSucceeds ==
    (sshlast.op = "clear" /\ ~sshlast.before.exists) => sshlast.ret.ok

\* C8: when ClearSSHAuthKeys returned success the file is gone, and when the
\* delete failed for another reason than the file being absent the call
\* returned an error.
C8_ClearSuccessMeansGone ==
    sshlast.op = "clear" =>
        /\ sshlast.ret.ok => ~AuthFile.exists
        /\ (sshlast.err /= NoError /\ ~IsNotExist(sshlast.err)) => ~sshlast.ret.ok

\* C9: after a successful AddSSHAuthKey(k) the file is what it was (empty if
\* absent) followed by k and a line feed, its last line is exactly k, and the
\* keys added since the last clear are its last lines, once each, in call
\* order.
C9_AddAppendsOneLine ==
    (sshlast.op = "add" /\ sshlast.ret.ok) =>
        /\ AuthFile = File(sshlast.before.data \o sshlast.key \o <<"\n">>)
        /\ LET lines == SplitLines(AuthFile.data) IN
           /\ lines /= <<>>
           /\ lines[Len(lines)] = sshlast.key
           /\ IsSuffix(sshadded, lines)

(***************************************************************************)
(* Claims about the LoadUSBIP property (SpecUsb).                          *)
(***************************************************************************)
\* the arguments of a load (TRUE) or an unload (FALSE) of vhci-hcd
Direction(value) ==
    IF value THEN <<moduleLoadCommand, "vhci-hcd">>
             ELSE <<moduleLoadCommand, "--remove", "vhci-hcd">>

\* C10: every write of the property has one module-loader command executed,
\* and the command of the last write agrees in direction with the cached
\* value: a load when it is true, an unload when it is false.
C10_WriteIssuesOneCommand ==
    /\ Len(uexec) = Len(uwrites)
    /\ uwrites /= <<>> => uexec[Len(uexec)].args = Direction(loadUSBIP)

\* the last write of the property, if any was accepted
LastWrite == uwrites[Len(uwrites)]
Accepted(w) == w.ret = NoError

\* C11: a read made after an accepted write of v and before the next write
\* returns v, whatever the kernel's module table holds.
C11_ReadReturnsLastWrite ==
    (/\ uread.done
     /\ uwrites /= <<>>
     /\ uread.after = Len(uwrites)
     /\ Accepted(LastWrite)) => uread.value = LastWrite.value

\* a read after an accepted write whose value the kernel does not hold
C11_Witness ==
    /\ uread.done
    /\ uwrites /= <<>>
    /\ uread.after = Len(uwrites)
    /\ Accepted(LastWrite)
    /\ LastWrite.value /= kmod
    /\ uread.value = LastWrite.value

\* C12: when the agent has started and nothing was written yet, the cached
\* state and the property equal whether the module was in the kernel's table
\* at start.
C12_InitialStateIsKernelState ==
    (urun = "running" /\ uwrites = <<>>) =>
        /\ loadUSBIP = kstart
        /\ propValue = kstart

\* C13: a write whose command setup failed returned a failure object to the
\* caller, the agent still runs, and the property kept its value.
C13_SetupFailureRejectsWrite ==
    \A i \in 1..Len(uwrites) :
        uwrites[i].cerror /= NoError =>
            /\ uwrites[i].ret = "Failed"
            /\ urun = "running"
            /\ i = Len(uwrites) => propValue = uwrites[i].before

(***************************************************************************)
(* Claims about the whole agent (SpecAgent).                               *)
(***************************************************************************)
\* C14: once the agent runs, a step that changes the cached module state is a
\* write of the property (no step of WipeDevice, ScheduleWipeDevice,
\* AddSSHAuthKey or ClearSSHAuthKeys changes it), and a write of the property
\* leaves the boot command-line file and authorized_keys as they are.
C14_CacheChangedOnlyByWrite ==
    /\ [][(urun = "running" /\ loadUSBIP' /= loadUSBIP) =>
              (Len(uwrites') = Len(uwrites) + 1 /\ wipeVars' = wipeVars
               /\ schedVars' = schedVars /\ sshVars' = sshVars)]_vars
    /\ [][(wipeVars' /= wipeVars \/ schedVars' /= schedVars \/ sshVars' /= sshVars)
              => loadUSBIP' = loadUSBIP]_vars
    /\ [][uwrites' /= uwrites =>
              /\ ReadOf(dir', inode', kernelCommandLine) = Read(kernelCommandLine)
              /\ ReadOf(dir', inode', sshAuthKeyFileName) = AuthFile]_vars

\* the cached state is true by a write, a key was added and is in the file
C14_Witness ==
    /\ uwrites /= <<>>
    /\ loadUSBIP
    /\ sshlast.op = "add"
    /\ sshlast.ret.ok
    /\ AuthFile.exists
    /\ AuthFile.data /= <<>>

(***************************************************************************)
(* More claims about WipeDevice (SpecWipe).                                *)
(***************************************************************************)
\* the checks of an invocation, in the order of the code
CheckOrder ==
    << [op |-> "GetBusObjectFromLabel", label |-> labelDataFileSystem],
       [op |-> "GetMountPointsString", label |-> labelDataFileSystem],
       [op |-> "GetBusObjectFromLabel", label |-> labelOverlayFileSystem],
       [op |-> "GetMountPointsString", label |-> labelOverlayFileSystem] >>

\* C15: the checks are made in the order resolve data, mount points of data,
\* resolve overlay, mount points of overlay; the first check that fails is the
\* last call of the invocation, which returns a failure for that volume; when
\* the failure is a mounted volume the error names its label and its mount
\* points; a mounted data volume is named whatever the overlay volume is.
C15_ChecksInOrderFirstFailureReturned ==
    /\ \A i \in DOMAIN wlog :
         /\ i <= Len(CheckOrder) =>
              (wlog[i].op = CheckOrder[i].op /\ wlog[i].label = CheckOrder[i].label)
         /\ i > Len(CheckOrder) => IsFormat(wlog[i])
    /\ \A i \in DOMAIN wlog :
         CheckFailed(wlog[i]) =>
            /\ i = Len(wlog)
            /\ wpc = "idle"
            /\ wret.done /\ ~wret.ok
            /\ wret.label = wlog[i].label
            /\ wlog[i].mounts /= {} =>
                 wret = Failed("Mounted", wlog[i].label, wlog[i].mounts)

\* both volumes are mounted, the invocation is over after two calls and its
\* error names hassos-data and /mnt/data
C15_Witness ==
    /\ vol[labelOverlayFileSystem].mounts /= {}
    /\ vol[labelDataFileSystem].mounts = {"/mnt/data"}
    /\ wpc = "idle"
    /\ Len(wlog) = 2
    /\ wret = Failed("Mounted", "hassos-data", {"/mnt/data"})

\* C16: whatever mounts and unmounts happen during an invocation, a format
\* call is issued only for a volume that is mounted nowhere at the moment of
\* the call.
C16_NoFormatOfMountedVolume ==
    [][(Len(wlog') = Len(wlog) + 1 /\ IsFormat(wlog'[Len(wlog')]))
          => vol[wlog'[Len(wlog')].label].mounts = {}]_vars

(***************************************************************************)
(* Claims about invocations of ScheduleWipeDevice running at the same time *)
(* (SpecSchedConc).                                                        *)
(***************************************************************************)
\* the content n successful invocations in a row make of d
RECURSIVE DatastrTimes(_, _)
DatastrTimes(d, n) == IF n = 0 THEN d ELSE Datastr(DatastrTimes(d, n - 1))

\* C17: with invocations running at the same time the boot file is always
\* the file found at start or a complete new content made from it, never a
\* partly written one; and once all invocations are over, the file holds one
\* haos.wipe=1 per invocation that returned success.
C17_ConcurrentCallsKeepBootFile ==
    /\ \/ BootFile = sboot0
       \/ \E n \in 1..(MaxSchedCalls + MaxCallers) :
              BootFile = File(DatastrTimes(sboot0.data, n))
    /\ AllIdle => Fields(BootFile.data) = Fields(sboot0.data) \o Repeat(WipeToken, sok)

(***************************************************************************)
(* Claims about writes of the property that arrive together (SpecUsb).  The *)
(* property library takes its lock for the callback and the storing of the *)
(* value, so the two writes are served one after the other, in either      *)
(* order.                                                                  *)
(***************************************************************************)
\* C18: when the last two writes carried different values and both are over,
\* the cached state is the value of one of them, and the module-loader command
\* executed last agrees with it in direction.
C18_LastWriteWinsAndAgrees ==
    (/\ Len(uwrites) >= 2
     /\ uwrites[Len(uwrites) - 1].value /= LastWrite.value
     /\ Accepted(uwrites[Len(uwrites) - 1])
     /\ Accepted(LastWrite)) =>
        /\ loadUSBIP \in {uwrites[Len(uwrites) - 1].value, LastWrite.value}
        /\ uexec /= <<>>
        /\ uexec[Len(uexec)].args = Direction(loadUSBIP)

\* C19: whenever no write of the property is in progress, the cached flag
\* equals the value of the property on the bus; a write that was not accepted
\* has left both as they were.
C19_CacheEqualsProperty ==
    /\ loadUSBIP = propValue
    /\ (uwrites /= <<>> /\ ~Accepted(LastWrite)) => loadUSBIP = LastWrite.before

=============================================================================
